---- MODULE Spec2Model ----
(***************************************************************************)
(* TasksService (src/src/app.module.ts, lines 133-483): the transactional  *)
(* task-mutation engine.  Every service method is modelled as a sequence   *)
(* of steps, one per awaited call, executed by request processes that run  *)
(* concurrently against one record store (PostgreSQL, READ COMMITTED, row  *)
(* locks held to the end of the transaction) and one event queue.          *)
(***************************************************************************)
EXTENDS Integers, Sequences, FiniteSets, TLC

\* ---------------------------------------------------------------- bounds
NumProcs == 2        \* concurrent request handlers
MaxId    == 2        \* task identifiers 1..MaxId
MaxCalls == 2        \* service invocations in one behaviour
MaxBatch == 2        \* length of a batch's taskIds list
MaxClock == 2        \* ticks of the store's clock
MaxPage  == 3        \* page numbers 1..MaxPage
MaxLimit == 2        \* page sizes 1..MaxLimit
MaxTotal == 40       \* rows counted by the statistics query

Procs == 1..NumProcs
Ids   == 1..MaxId

\* ------------------------------------------------------------ data model
Status   == {"pending", "in_progress", "completed"}
Priority == {"low", "medium", "high"}
COMPLETED == "completed"

Rows  == [status : Status, priority : Priority]
NoRow == [status |-> "absent", priority |-> "absent"]   \* no row with that id
Keep  == [status |-> "keep", priority |-> "keep"]       \* id untouched by a transaction

None == "none"

\* CreateTaskDto: the entity's defaults, or an explicit status and priority
CreateInputs == { [status |-> "pending", priority |-> "medium"],
                  [status |-> "in_progress", priority |-> "high"] }

\* a DTO that lets the identifier through to the service
PatchesWithId == { [f \in {"status"} |-> "completed"],
                   [f \in {"id"} |-> MaxId],
                   [f \in {"priority"} |-> "low"] }

\* UpdateTaskDto: a subset of the task's mutable fields (title, description,
\* status, priority, dueDate); the identifier is not one of them.
Patches == { [f \in {"status"} |-> "completed"],
             [f \in {"status"} |-> "pending"],
             [f \in {"priority"} |-> "low"] }

\* updateStatus(id, status: string): any string, line 323
StatusInputs == {"in_progress", "archived"}

\* BatchTaskDto: taskIds (the statement's IN list, so order is irrelevant
\* and the lists are taken sorted; an identifier may be repeated), action
\* and its companion parameter (newStatus is validated with @IsEnum,
\* newPriority with @IsString only)
IdLists == { l \in [1..MaxBatch -> Ids] :
               \A k \in 1..(Len(l) - 1) : l[k] <= l[k + 1] }
BatchInputs ==
  { [action |-> "complete", newStatus |-> None, newPriority |-> None],
    [action |-> "delete", newStatus |-> None, newPriority |-> None],
    [action |-> "update_status", newStatus |-> "pending", newPriority |-> None],
    [action |-> "update_status", newStatus |-> None, newPriority |-> None],
    [action |-> "update_priority", newStatus |-> None, newPriority |-> "high"],
    [action |-> "update_priority", newStatus |-> None, newPriority |-> "urgent"],
    [action |-> "update_priority", newStatus |-> None, newPriority |-> None],
    [action |-> "archive", newStatus |-> None, newPriority |-> None] }

Range(s) == { s[i] : i \in DOMAIN s }

\* QueryTaskDto: optional status and priority filters (@IsEnum), page and
\* limit (positive, at least 1); the sort is the default, createdAt DESC
QueryInputs == [status : {None, "pending"}, priority : {None, "high"},
                page : 1..MaxPage, limit : 1..MaxLimit]

NoArg == [id |-> 0, row |-> NoRow, patch |-> <<>>, status |-> None,
          ids |-> <<>>, action |-> None, newStatus |-> None, newPriority |-> None,
          query |-> <<>>]

\* results delivered to the caller
\* (detail: the text of an underlying error that the thrown error carries)
NoResult  == [kind |-> "none", name |-> None, row |-> NoRow, affected |-> 0, detail |-> None]
OkRow(r)  == [kind |-> "ok", name |-> None, row |-> r, affected |-> 0, detail |-> None]
OkVoid    == [kind |-> "ok", name |-> None, row |-> NoRow, affected |-> 0, detail |-> None]
OkBatch(a, n) == [kind |-> "ok", name |-> a, row |-> NoRow, affected |-> n, detail |-> None]
Failure(e) == [kind |-> "error", name |-> e, row |-> NoRow, affected |-> 0, detail |-> None]
FailureWith(e, m) == [kind |-> "error", name |-> e, row |-> NoRow, affected |-> 0, detail |-> m]

\* messages of the errors the store driver raises
StoreMessages == {"duplicate key value violates unique constraint",
                  "connection terminated unexpectedly"}

VARIABLES
  store,         \* committed rows of the tasks table
  nextId,        \* next identifier the store assigns
  taskQueue,     \* TRUE: the queue is injected, FALSE: it is null
  calls,         \* invocations made so far
  pc,            \* position of each request in its method
  op,            \* method being executed
  arg,           \* the method's arguments
  runner,        \* query runner: "none", "open", "released"
  txState,       \* "none", "active", "committed", "rolledback", "aborted"
  locks,         \* row locks each request's transaction holds
  writes,        \* uncommitted writes of each request's transaction
  task,          \* the entity the method holds (read, patched, saved)
  taskId,        \* identifier of that entity
  originalStatus,\* update: status read under lock
  err,           \* error caught by the method's catch block
  attempts,      \* enqueue calls made by this invocation, in order
  qres,          \* outcome of the enqueue call: "none", "ok", "failed"
  result,        \* what the caller receives
  total,         \* findAll: the count query's answer
  stats,         \* getStats: the raw row of the aggregate query
  clock,         \* the store's clock
  txStart,       \* the store's time at the start of each request's transaction
  stamps         \* created-at and updated-at of each committed row

vars == <<store, nextId, taskQueue, calls, pc, op, arg, runner, txState, locks,
          writes, task, taskId, originalStatus, err, attempts, qres, result,
          total, stats, clock, txStart, stamps>>

NoWrites == [i \in Ids |-> Keep]

\* timestamps of a row
NoStamp == [createdAt |-> 0, updatedAt |-> 0]

\* a row as a statement of transaction p sees it: its own write, or the committed row
Current(p, i) == IF writes[p][i] = Keep THEN store[i] ELSE writes[p][i]

\* the store after transaction p commits
Committed(p) == [i \in Ids |-> Current(p, i)]

\* a column that takes every string
EnumColumnAny(v, values) == TRUE

\* The status and priority columns of the Task entity are enumerated: the
\* store rejects a statement that writes any other value.
EnumColumn(v, values) == v \in values

LockedByOther(p, i) == \E q \in Procs \ {p} : i \in locks[q]

\* a store that hands the row lock to every transaction that asks
CanLockAlways(p, i) == TRUE

\* SELECT ... FOR UPDATE, UPDATE and DELETE wait while another transaction
\* holds the row lock
CanLock(p, i) == ~LockedByOther(p, i)

\* a request that is not being served has no locals
NoLocals ==
  /\ arg = [p \in Procs |-> NoArg]
  /\ runner = [p \in Procs |-> "none"]
  /\ txState = [p \in Procs |-> "none"]
  /\ locks = [p \in Procs |-> {}]
  /\ writes = [p \in Procs |-> NoWrites]
  /\ task = [p \in Procs |-> NoRow]
  /\ taskId = [p \in Procs |-> 0]
  /\ originalStatus = [p \in Procs |-> None]
  /\ err = [p \in Procs |-> None]
  /\ attempts = [p \in Procs |-> <<>>]
  /\ qres = [p \in Procs |-> None]
  /\ result = [p \in Procs |-> NoResult]
  /\ total = [p \in Procs |-> 0]
  /\ clock = 0
  /\ txStart = [p \in Procs |-> 0]
  /\ stamps = [i \in Ids |-> NoStamp]

\* no request is being served
NoRequest ==
  /\ calls = 0
  /\ pc = [p \in Procs |-> "idle"]
  /\ op = [p \in Procs |-> None]
  /\ stats = [p \in Procs |-> <<>>]
  /\ NoLocals

\* The service starts on a table that is empty or already holds a task
\* created by an earlier run.
Init ==
  /\ \/ /\ store = [i \in Ids |-> NoRow]
        /\ nextId = 1
     \/ /\ store = [i \in Ids |-> IF i = 1 THEN [status |-> "pending", priority |-> "medium"]
                                           ELSE NoRow]
        /\ nextId = 2
  /\ taskQueue \in BOOLEAN
  /\ NoRequest

\* ------------------------------------------------- transaction skeleton
\* the statement that throws lands in the method's catch block
Throw(p, e) ==
  /\ err' = [err EXCEPT ![p] = e]
  /\ pc' = [pc EXCEPT ![p] = "rollback"]

\* first statement of the method body after startTransaction
BodyPc(o) ==
  CASE o = "create" -> "save"
    [] o = "update" -> "lockRead"
    [] o = "remove" -> "lockRead"
    [] OTHER        -> "dispatch"

\* ------------------------------------------------------------ invocation
\* A request enters create, update, remove or batchProcess: it obtains a
\* query runner, connects and starts the transaction (lines 146-150,
\* 232-236, 287-291, 373-377).  connect or startTransaction may throw, and
\* the catch block is then entered with no transaction started.
Enter(p, o, a) ==
  /\ pc[p] = "idle"
  /\ calls < MaxCalls
  /\ calls' = calls + 1
  /\ op' = [op EXCEPT ![p] = o]
  /\ arg' = [arg EXCEPT ![p] = a]
  /\ taskId' = [taskId EXCEPT ![p] = a.id]
  /\ runner' = [runner EXCEPT ![p] = "open"]
  /\ \/ /\ txState' = [txState EXCEPT ![p] = "active"]
        /\ txStart' = [txStart EXCEPT ![p] = clock]
        /\ pc' = [pc EXCEPT ![p] = BodyPc(o)]
        /\ UNCHANGED err
     \/ /\ Throw(p, "StoreError")
        /\ UNCHANGED <<txState, txStart>>
  /\ UNCHANGED <<store, nextId, taskQueue, total, stats, clock, stamps, locks, writes, task,
                 originalStatus, attempts, qres, result>>

CallCreate(p) ==
  \E r \in CreateInputs : Enter(p, "create", [NoArg EXCEPT !.row = r])

CallUpdate(p) ==
  \E i \in Ids, d \in Patches :
    Enter(p, "update", [NoArg EXCEPT !.id = i, !.patch = d])

CallRemove(p) ==
  \E i \in Ids : Enter(p, "remove", [NoArg EXCEPT !.id = i])

CallUpdateStatus(p) ==
  \E i \in Ids, s \in StatusInputs :
    /\ pc[p] = "idle"
    /\ calls < MaxCalls
    /\ calls' = calls + 1
    /\ op' = [op EXCEPT ![p] = "updateStatus"]
    /\ arg' = [arg EXCEPT ![p] = [NoArg EXCEPT !.id = i, !.status = s]]
    /\ taskId' = [taskId EXCEPT ![p] = i]
    /\ pc' = [pc EXCEPT ![p] = "findOne"]
    /\ runner' = [runner EXCEPT ![p] = "none"]
    /\ UNCHANGED <<store, nextId, taskQueue, total, stats, clock, txStart, stamps, locks,
                   writes, txState, task,
                   originalStatus, err, attempts, qres, result>>

CallBatchProcess(p) ==
  \E l \in IdLists, b \in BatchInputs :
    Enter(p, "batchProcess",
          [NoArg EXCEPT !.ids = l, !.action = b.action, !.newStatus = b.newStatus,
                        !.newPriority = b.newPriority])

\* ---------------------------------------------------------------- queue
\* this.taskQueue.add('task-status-update', {taskId, status}, {attempts: 3,
\* backoff}), lines 159-168 and 257-266: the call hands the job to the queue
\* and the method awaits the queue's answer.
Add(p, id, status) ==
  /\ attempts' = [attempts EXCEPT ![p] = Append(@, [taskId |-> id, status |-> status])]
  /\ pc' = [pc EXCEPT ![p] = "enqueue"]

\* an inner catch that lets the queue's error escape to the outer catch
RethrowQueueError(p) == Throw(p, "QueueError")

\* taskQueue.add threw: the inner catch only logs and the method goes on to
\* commitTransaction (lines 169-172, 267-269)
CatchQueueError(p) ==
  /\ pc' = [pc EXCEPT ![p] = "commit"]
  /\ UNCHANGED err

\* the awaited add resolves or rejects; while the queue does neither, the
\* request stays at this step.
QueueAnswer(p) ==
  /\ pc[p] = "enqueue"
  /\ \/ /\ qres' = [qres EXCEPT ![p] = "ok"]
        /\ pc' = [pc EXCEPT ![p] = "commit"]
        /\ UNCHANGED err
     \/ /\ qres' = [qres EXCEPT ![p] = "failed"]
        /\ CatchQueueError(p)
  /\ UNCHANGED <<store, nextId, taskQueue, total, stats, clock, txStart, stamps, calls,
                 op, arg, runner, txState, locks,
                 writes, task, taskId, originalStatus, attempts, result>>

\* --------------------------------------------------------------- create
\* a create that does not test this.taskQueue
CreateEnqueuesAlways(queue) == TRUE

\* a create that never notifies
CreateEnqueuesNever(queue) == FALSE

\* line 157, if (this.taskQueue): the enqueue is attempted when the queue is
\* injected
CreateEnqueues(queue) == queue

\* queryRunner.manager.save(Task, task), lines 153-154: the store assigns
\* the identifier; the row stays invisible to others until commit.
CreateSave(p) ==
  /\ pc[p] = "save" /\ op[p] = "create"
  /\ \/ /\ nextId <= MaxId
        /\ nextId' = nextId + 1
        /\ writes' = [writes EXCEPT ![p][nextId] = arg[p].row]
        /\ task' = [task EXCEPT ![p] = arg[p].row]
        /\ taskId' = [taskId EXCEPT ![p] = nextId]
        /\ IF CreateEnqueues(taskQueue)
             THEN Add(p, nextId, arg[p].row.status)
             ELSE pc' = [pc EXCEPT ![p] = "commit"] /\ UNCHANGED attempts
        /\ UNCHANGED err
     \/ /\ Throw(p, "StoreError")
        /\ UNCHANGED <<nextId, writes, task, taskId, attempts>>
  /\ UNCHANGED <<store, taskQueue, total, stats, clock, txStart, stamps, calls, op, arg,
                 runner, txState, locks,
                 originalStatus, qres, result>>

\* ------------------------------------------------------ update / remove
\* the read without the lock option
LockModeNone == "none"

\* lock: { mode: 'pessimistic_write' }, lines 241 and 295
LockMode == "pessimistic_write"

\* an update that builds the row from the patch alone
ApplyPatchReplace(row, d) ==
  [f \in DOMAIN row |-> IF f \in DOMAIN d THEN d[f]
                        ELSE IF f = "status" THEN "pending" ELSE "medium"]

\* Object.assign(task, updateTaskDto), line 251
ApplyPatch(row, d) ==
  [f \in DOMAIN row |-> IF f \in DOMAIN d THEN d[f] ELSE row[f]]

\* the identifier of the entity after Object.assign(task, updateTaskDto):
\* Object.assign copies every property the DTO carries, `id` included
SavedId(i, d) == IF "id" \in DOMAIN d THEN d.id ELSE i

\* an update that notifies whether or not the status changed
ShouldEnqueueAlways(orig, updated, queue) == queue

\* line 255: originalStatus !== updatedTask.status && this.taskQueue
ShouldEnqueue(orig, updated, queue) == orig # updated.status /\ queue

\* queryRunner.manager.findOne(Task, {where: {id}, lock}), lines 239-246 and
\* 293-300: SELECT ... FOR UPDATE waits while another transaction holds the
\* row, then reads the committed row and keeps the row lock.
LockRead(p) ==
  /\ pc[p] = "lockRead"
  /\ LET i == arg[p].id IN
     /\ (LockMode = "pessimistic_write") => CanLock(p, i)
     /\ IF store[i] = NoRow
          THEN /\ Throw(p, "NotFound")
               /\ UNCHANGED <<locks, task, originalStatus>>
          ELSE /\ locks' = [locks EXCEPT ![p] =
                              IF LockMode = "pessimistic_write" THEN @ \cup {i} ELSE @]
               /\ task' = [task EXCEPT ![p] = store[i]]
               /\ originalStatus' = [originalStatus EXCEPT ![p] = store[i].status]
               /\ pc' = [pc EXCEPT ![p] = IF op[p] = "update" THEN "save" ELSE "delete"]
               /\ UNCHANGED err
  /\ UNCHANGED <<store, nextId, taskQueue, total, stats, clock, txStart, stamps, calls,
                 op, arg, runner, txState,
                 writes, taskId, attempts, qres, result>>

\* queryRunner.manager.save(Task, task), line 252: the UPDATE takes the row
\* lock (already held after a locked read) and writes the whole entity.
UpdateSave(p) ==
  /\ pc[p] = "save" /\ op[p] = "update"
  /\ LET i == SavedId(arg[p].id, arg[p].patch)
         updatedTask == ApplyPatch(task[p], arg[p].patch) IN
     \/ /\ CanLock(p, i)
        /\ locks' = [locks EXCEPT ![p] = @ \cup {i}]
        /\ writes' = [writes EXCEPT ![p][i] = updatedTask]
        /\ task' = [task EXCEPT ![p] = updatedTask]
        /\ taskId' = [taskId EXCEPT ![p] = i]
        /\ IF ShouldEnqueue(originalStatus[p], updatedTask, taskQueue)
             THEN Add(p, i, updatedTask.status)
             ELSE pc' = [pc EXCEPT ![p] = "commit"] /\ UNCHANGED attempts
        /\ UNCHANGED err
     \/ /\ Throw(p, "StoreError")
        /\ UNCHANGED <<locks, writes, task, taskId, attempts>>
  /\ UNCHANGED <<store, nextId, taskQueue, total, stats, clock, txStart, stamps, calls,
                 op, arg, runner, txState,
                 originalStatus, qres, result>>

\* queryRunner.manager.remove(Task, task), line 302
RemoveDelete(p) ==
  /\ pc[p] = "delete"
  /\ LET i == arg[p].id IN
     \/ /\ CanLock(p, i)
        /\ locks' = [locks EXCEPT ![p] = @ \cup {i}]
        /\ writes' = [writes EXCEPT ![p][i] = NoRow]
        /\ pc' = [pc EXCEPT ![p] = "commit"]
        /\ UNCHANGED err
     \/ /\ Throw(p, "StoreError")
        /\ UNCHANGED <<locks, writes>>
  /\ UNCHANGED <<store, nextId, taskQueue, total, stats, clock, txStart, stamps, calls,
                 op, arg, runner, txState,
                 task, taskId, originalStatus, attempts, qres, result>>

\* ---------------------------------------------------------- batchProcess
KnownActions == {"complete", "delete", "update_status", "update_priority"}

\* a switch without its default branch
BatchInvalidNoDefault(a) ==
  \/ a.action = "update_status" /\ a.newStatus = None
  \/ a.action = "update_priority" /\ a.newPriority = None

\* lines 406-409, 421-424, 436-437: the requests the switch rejects
BatchInvalid(a) ==
  \/ a.action = "update_status" /\ a.newStatus = None
  \/ a.action = "update_priority" /\ a.newPriority = None
  \/ a.action \notin KnownActions

\* the bulk statement's effect on one matching row, lines 384-431
BatchWrite(row, a) ==
  CASE a.action = "complete"        -> [row EXCEPT !.status = COMPLETED]
    [] a.action = "delete"          -> NoRow
    [] a.action = "update_status"   -> [row EXCEPT !.status = a.newStatus]
    [] a.action = "update_priority" -> [row EXCEPT !.priority = a.newPriority]
    [] OTHER                        -> row

\* the value the bulk UPDATE sets fits its column
BatchValueAccepted(a) ==
  /\ a.action = "update_status" => EnumColumn(a.newStatus, Status)
  /\ a.action = "update_priority" => EnumColumn(a.newPriority, Priority)

\* rows the statement's whereInIds(taskIds) matches
Matching(p) == { i \in Range(arg[p].ids) : Current(p, i) # NoRow }

\* switch (action), lines 381-438: one bulk UPDATE or DELETE, which locks
\* every row it matches until the transaction ends.
BatchDispatch(p) ==
  /\ pc[p] = "dispatch"
  /\ IF BatchInvalid(arg[p])
       THEN /\ Throw(p, "BadRequest")
            /\ UNCHANGED <<locks, writes>>
       ELSE \/ /\ BatchValueAccepted(arg[p])
               /\ \A i \in Matching(p) : CanLock(p, i)
               /\ locks' = [locks EXCEPT ![p] = @ \cup Matching(p)]
               /\ writes' = [writes EXCEPT ![p] =
                               [i \in Ids |-> IF i \in Matching(p)
                                                THEN BatchWrite(Current(p, i), arg[p])
                                                ELSE @[i]]]
               /\ pc' = [pc EXCEPT ![p] = "commit"]
               /\ UNCHANGED err
            \/ /\ Throw(p, "StoreError")
               /\ UNCHANGED <<locks, writes>>
  /\ UNCHANGED <<store, nextId, taskQueue, total, stats, clock, txStart, stamps, calls,
                 op, arg, runner, txState,
                 task, taskId, originalStatus, attempts, qres, result>>

\* ---------------------------------------------------- commit / rollback
\* the value the method returns after commitTransaction (lines 178, 273, 441)
SuccessValue(p) ==
  CASE op[p] \in {"create", "update"} -> OkRow(task[p])
    [] op[p] = "batchProcess"         -> OkBatch(arg[p].action, Len(arg[p].ids))
    [] OTHER                          -> OkVoid

\* a catch block that wraps every caught error
CaughtErrorWraps(o, e) == "BadRequest"

\* the error the catch block throws after the rollback (lines 182, 276-280,
\* 306-310, 446)
CaughtError(o, e) ==
  IF o \in {"update", "remove"} /\ e = "NotFound" THEN "NotFound" ELSE "BadRequest"

\* error.message of the caught error: a store error carries the driver's
\* text, a BadRequestException thrown by the switch its own text
CaughtMessages(p) ==
  IF err[p] = "StoreError" THEN StoreMessages
  ELSE IF err[p] = "BadRequest" THEN {"Invalid batch request"}
  ELSE {None}

\* what the thrown error carries of the caught error's message: create,
\* update and remove throw fixed texts, batchProcess throws
\* `Batch operation failed: ${message}` (lines 444-446)
CaughtDetail(o, m) == IF o = "batchProcess" THEN m ELSE None

\* error.code of a store error: 23505 is the unique-constraint violation
ErrorCode(m) ==
  IF m = "duplicate key value violates unique constraint" THEN "23505" ELSE None

\* ErrorHandlerInterceptor.intercept: what the caller receives for a thrown
\* error.  An HttpException (BadRequestException, NotFoundException) is
\* re-thrown as it is, message included; any other error is answered by its
\* code or, without a known code, by 'Internal server error', to which only
\* NODE_ENV = development adds error.message and error.stack.
Intercept(r, env) ==
  IF r.name = "BadRequest" THEN [status |-> "BAD_REQUEST", detail |-> r.detail]
  ELSE IF r.name = "NotFound" THEN [status |-> "NOT_FOUND", detail |-> r.detail]
  ELSE IF ErrorCode(r.detail) = "23505" THEN [status |-> "CONFLICT", detail |-> None]
  ELSE IF env = "development"
         THEN [status |-> "INTERNAL_SERVER_ERROR", detail |-> r.detail]
         ELSE [status |-> "INTERNAL_SERVER_ERROR", detail |-> None]

\* a rollback that publishes the transaction's writes
RolledBackLeaks(p) == Committed(p)

\* the committed rows after rollbackTransaction
RolledBack(p) == store

\* release called on no exit path
FinallySkipsRelease == "return"

\* where every exit path of try and catch goes: the finally block
Finally == "release"

\* The created-at and updated-at columns are assigned by the store: a
\* statement that inserts a row gives it both, a statement that changes a
\* row gives it a new updated-at, and the value is the store's
\* CURRENT_TIMESTAMP, which is the time at which the statement's
\* transaction started.  `old` and `new` are the committed rows before and
\* after the transaction, t its start time.
Stamped(old, new, t) ==
  [i \in Ids |->
     IF new[i] = NoRow THEN NoStamp
     ELSE IF old[i] = NoRow THEN [createdAt |-> t, updatedAt |-> t]
     ELSE IF new[i] # old[i] THEN [stamps[i] EXCEPT !.updatedAt = t]
     ELSE stamps[i]]

\* await queryRunner.commitTransaction(), lines 177, 272, 303, 440
Commit(p) ==
  /\ pc[p] = "commit"
  /\ \/ /\ store' = Committed(p)
        /\ stamps' = Stamped(store, Committed(p), txStart[p])
        /\ writes' = [writes EXCEPT ![p] = NoWrites]
        /\ locks' = [locks EXCEPT ![p] = {}]
        /\ txState' = [txState EXCEPT ![p] = "committed"]
        /\ result' = [result EXCEPT ![p] = SuccessValue(p)]
        /\ pc' = [pc EXCEPT ![p] = Finally]
        /\ UNCHANGED err
     \/ /\ Throw(p, "StoreError")
        /\ UNCHANGED <<store, stamps, writes, locks, txState, result>>
  /\ UNCHANGED <<nextId, taskQueue, total, stats, clock, txStart, calls, op, arg, runner,
                 task, taskId,
                 originalStatus, attempts, qres>>

\* await queryRunner.rollbackTransaction() in the catch block (lines 180,
\* 275, 305, 443), then the throw.  Without an active transaction the call
\* itself throws; with one it may fail when the connection is lost, and the
\* store then aborts the transaction.  An error thrown here replaces the
\* one the catch block was about to throw.
Rollback(p) ==
  /\ pc[p] = "rollback"
  /\ pc' = [pc EXCEPT ![p] = Finally]
  /\ IF txState[p] # "active"
       THEN /\ result' = [result EXCEPT ![p] =
                           FailureWith("TransactionNotStarted", "Transaction is not started yet")]
            /\ UNCHANGED <<store, writes, locks, txState>>
       ELSE /\ store' = RolledBack(p)
            /\ writes' = [writes EXCEPT ![p] = NoWrites]
            /\ locks' = [locks EXCEPT ![p] = {}]
            /\ \/ /\ txState' = [txState EXCEPT ![p] = "rolledback"]
                  /\ \E m \in CaughtMessages(p) :
                       result' = [result EXCEPT ![p] =
                                    FailureWith(CaughtError(op[p], err[p]),
                                                CaughtDetail(op[p], m))]
               \/ /\ txState' = [txState EXCEPT ![p] = "aborted"]
                  /\ \E m \in StoreMessages :
                       result' = [result EXCEPT ![p] = FailureWith("StoreError", m)]
  /\ UNCHANGED <<nextId, taskQueue, total, stats, clock, txStart, stamps, calls, op, arg,
                 runner, task, taskId,
                 originalStatus, err, attempts, qres>>

\* the invocation ends: the caller has the result or the error
Leave(p) ==
  /\ pc' = [pc EXCEPT ![p] = "idle"]
  /\ op' = [op EXCEPT ![p] = None]
  /\ arg' = [arg EXCEPT ![p] = NoArg]
  /\ txState' = [txState EXCEPT ![p] = "none"]
  /\ task' = [task EXCEPT ![p] = NoRow]
  /\ taskId' = [taskId EXCEPT ![p] = 0]
  /\ originalStatus' = [originalStatus EXCEPT ![p] = None]
  /\ err' = [err EXCEPT ![p] = None]
  /\ attempts' = [attempts EXCEPT ![p] = <<>>]
  /\ qres' = [qres EXCEPT ![p] = None]
  /\ result' = [result EXCEPT ![p] = NoResult]
  /\ total' = [total EXCEPT ![p] = 0]
  /\ stats' = [stats EXCEPT ![p] = <<>>]
  /\ txStart' = [txStart EXCEPT ![p] = 0]

\* await queryRunner.release() in the finally block (lines 183-185, 281-283,
\* 311-313, 447-449), after which the method returns or throws
Release(p) ==
  /\ pc[p] = "release"
  /\ runner' = [runner EXCEPT ![p] = "released"]
  /\ Leave(p)
  /\ UNCHANGED <<store, nextId, taskQueue, clock, stamps, calls, locks, writes>>

\* ---------------------------------------------------------- updateStatus
\* const task = await this.findOne(id), lines 324 and 218-229: a plain read
FindOne(p) ==
  /\ pc[p] = "findOne"
  /\ LET i == arg[p].id IN
     IF store[i] = NoRow
       THEN /\ result' = [result EXCEPT ![p] = Failure("NotFound")]
            /\ pc' = [pc EXCEPT ![p] = "return"]
            /\ UNCHANGED task
       ELSE /\ task' = [task EXCEPT ![p] = store[i]]
            /\ pc' = [pc EXCEPT ![p] = "saveStatus"]
            /\ UNCHANGED result
  /\ UNCHANGED <<store, nextId, taskQueue, total, stats, clock, txStart, stamps, calls,
                 op, arg, runner, txState, locks,
                 writes, taskId, originalStatus, err, attempts, qres>>

\* an updateStatus that reads the row again before it writes
FreshCopy(p) == [store[arg[p].id] EXCEPT !.status = arg[p].status]

\* task.status = status, line 325: the entity read by findOne, with the new
\* status
StaleCopy(p) == [task[p] EXCEPT !.status = arg[p].status]

\* return this.tasksRepository.save(task), line 326: the repository writes
\* the entity it was given in a transaction of its own (an UPDATE that waits
\* for the row lock, or an INSERT when the row is gone).
SaveStatusOk(p) ==
  /\ pc[p] = "saveStatus"
  /\ pc' = [pc EXCEPT ![p] = "return"]
  /\ CanLock(p, arg[p].id)
  /\ EnumColumn(arg[p].status, Status)
  /\ store' = [store EXCEPT ![arg[p].id] = StaleCopy(p)]
  /\ stamps' = Stamped(store, [store EXCEPT ![arg[p].id] = StaleCopy(p)], clock)
  /\ task' = [task EXCEPT ![p] = StaleCopy(p)]
  /\ result' = [result EXCEPT ![p] = OkRow(StaleCopy(p))]
  /\ UNCHANGED <<nextId, taskQueue, total, stats, clock, txStart, calls, op, arg, runner,
                 txState, locks,
                 writes, taskId, originalStatus, err, attempts, qres>>

\* the save fails and its error leaves updateStatus as it is
SaveStatusFail(p) ==
  /\ pc[p] = "saveStatus"
  /\ pc' = [pc EXCEPT ![p] = "return"]
  /\ \E m \in StoreMessages :
       result' = [result EXCEPT ![p] = FailureWith("StoreError", m)]
  /\ UNCHANGED <<store, task, nextId, taskQueue, total, stats, clock, txStart, stamps,
                 calls, op, arg, runner, txState,
                 locks, writes, taskId, originalStatus, err, attempts, qres>>

SaveStatus(p) == SaveStatusOk(p) \/ SaveStatusFail(p)

\* updateStatus returns the saved entity or throws
Return(p) ==
  /\ pc[p] = "return"
  /\ Leave(p)
  /\ UNCHANGED <<store, nextId, taskQueue, clock, stamps, calls, runner, locks, writes>>

\* --------------------------------------------------------------- findAll
\* buildTaskQuery, lines 452-482: one andWhere per filter that is present
Matches(row, q) ==
  /\ row # NoRow
  /\ q.status # None => row.status = q.status
  /\ q.priority # None => row.priority = q.priority

MatchingIds(rows, q) == { i \in DOMAIN rows : Matches(rows[i], q) }

\* orderBy('task.createdAt', 'DESC'): identifiers are assigned in creation
\* order, so the newest row is the one with the greatest identifier
RECURSIVE SortDesc(_)
SortDesc(S) ==
  IF S = {} THEN <<>>
  ELSE LET m == CHOOSE x \in S : \A y \in S : y <= x
       IN  <<m>> \o SortDesc(S \ {m})

\* .skip(offset).take(limit).getMany(), lines 198-203
PageOf(rows, q) ==
  LET sorted == SortDesc(MatchingIds(rows, q))
      offset == (q.page - 1) * q.limit
      last   == IF offset + q.limit < Len(sorted) THEN offset + q.limit ELSE Len(sorted)
  IN  [k \in 1..(IF last > offset THEN last - offset ELSE 0) |->
         [id |-> sorted[offset + k], status |-> rows[sorted[offset + k]].status,
          priority |-> rows[sorted[offset + k]].priority]]

\* a page count that rounds down
TotalPagesFloor(n, limit) == n \div limit

\* Math.ceil(total / limit), line 205
TotalPages(n, limit) == (n + limit - 1) \div limit

\* the envelope findAll returns, lines 207-215
Envelope(data, n, q) ==
  [kind |-> "ok", name |-> None, row |-> NoRow, affected |-> 0, detail |-> None,
   data |-> data, total |-> n, page |-> q.page, limit |-> q.limit,
   totalPages |-> TotalPages(n, q.limit),
   hasNext |-> q.page < TotalPages(n, q.limit),
   hasPrev |-> q.page > 1]

\* a read-only method is entered: no query runner, no transaction
EnterRead(p, o, a, first) ==
  /\ pc[p] = "idle"
  /\ calls < MaxCalls
  /\ calls' = calls + 1
  /\ op' = [op EXCEPT ![p] = o]
  /\ arg' = [arg EXCEPT ![p] = a]
  /\ pc' = [pc EXCEPT ![p] = first]
  /\ runner' = [runner EXCEPT ![p] = "none"]
  /\ UNCHANGED <<store, nextId, taskQueue, locks, writes, txState, task, taskId,
                 originalStatus, err, attempts, qres, result, total, stats,
                 clock, txStart, stamps>>

CallFindAll(p) ==
  \E q \in QueryInputs : EnterRead(p, "findAll", [NoArg EXCEPT !.query = q], "getCount")

\* a query of a read-only method fails: the error leaves the method as it is
QueryFails(p) ==
  /\ pc' = [pc EXCEPT ![p] = "return"]
  /\ \E m \in StoreMessages :
       result' = [result EXCEPT ![p] = FailureWith("StoreError", m)]

\* const total = await queryBuilder.getCount(), line 195
FindAllCount(p) ==
  /\ pc[p] = "getCount"
  /\ \/ /\ total' = [total EXCEPT ![p] = Cardinality(MatchingIds(store, arg[p].query))]
        /\ pc' = [pc EXCEPT ![p] = "getMany"]
        /\ UNCHANGED result
     \/ /\ QueryFails(p)
        /\ UNCHANGED total
  /\ UNCHANGED <<store, nextId, taskQueue, calls, op, arg, runner, txState, locks,
                 writes, task, taskId, originalStatus, err, attempts, qres,
                 stats, clock, txStart, stamps>>

\* const tasks = await queryBuilder...getMany(), lines 198-203, a second
\* statement, and the return of the envelope
FindAllPage(p) ==
  /\ pc[p] = "getMany"
  /\ \/ /\ result' = [result EXCEPT ![p] =
                        Envelope(PageOf(store, arg[p].query), total[p], arg[p].query)]
        /\ pc' = [pc EXCEPT ![p] = "return"]
     \/ QueryFails(p)
  /\ UNCHANGED <<store, nextId, taskQueue, calls, op, arg, runner, txState, locks,
                 writes, task, taskId, originalStatus, err, attempts, qres,
                 total, stats, clock, txStart, stamps>>

\* ------------------------------------------------------ double arithmetic
\* JavaScript numbers are IEEE 754 doubles: 53 significant bits, every
\* operation rounded to nearest, ties to even.  A natural number of any
\* size is a sequence of bits, least significant first; a double is such a
\* number together with the power of two that scales it.
RECURSIVE AddBits(_, _, _)
AddBits(a, b, c) ==
  IF a = <<>> /\ b = <<>>
    THEN IF c = 1 THEN <<1>> ELSE <<>>
    ELSE LET x == IF a = <<>> THEN 0 ELSE Head(a)
             y == IF b = <<>> THEN 0 ELSE Head(b)
             ra == IF a = <<>> THEN <<>> ELSE Tail(a)
             rb == IF b = <<>> THEN <<>> ELSE Tail(b)
         IN  <<(x + y + c) % 2>> \o AddBits(ra, rb, (x + y + c) \div 2)

ShiftLeft(a, k) == [i \in 1..k |-> 0] \o a

RECURSIVE ToNat(_)
ToNat(a) == IF a = <<>> THEN 0 ELSE Head(a) + 2 * ToNat(Tail(a))

\* the significant bits of a, without zeros at the top
RECURSIVE Trim(_)
Trim(a) ==
  IF a = <<>> \/ a[Len(a)] = 1 THEN a ELSE Trim(SubSeq(a, 1, Len(a) - 1))

\* a, cut by its d lowest bits and rounded to nearest, ties to even
RoundOff(a, d) ==
  IF d = 0 THEN a
  ELSE LET kept   == SubSeq(a, d + 1, Len(a))
           half   == a[d] = 1
           sticky == \E i \in 1..(d - 1) : a[i] = 1
       IN  IF half /\ (sticky \/ kept[1] = 1) THEN AddBits(kept, <<1>>, 0) ELSE kept

\* the n quotient bits after the leading one of r / d (r < d), most
\* significant first, followed by one bit that tells whether a remainder
\* is left
RECURSIVE DivBits(_, _, _)
DivBits(r, d, n) ==
  IF n = 0 THEN << IF r = 0 THEN 0 ELSE 1 >>
  ELSE IF 2 * r >= d THEN <<1>> \o DivBits(2 * r - d, d, n - 1)
                     ELSE <<0>> \o DivBits(2 * r, d, n - 1)

Reverse(a) == [i \in 1..Len(a) |-> a[Len(a) + 1 - i]]

\* the least s with c * 2^s >= t
RECURSIVE Normalise(_, _)
Normalise(c, t) == IF c >= t THEN 0 ELSE 1 + Normalise(2 * c, t)

\* Math.round((c / t) * 100) for 0 <= c <= t and t > 0, as
\* the doubles compute it: the quotient rounded to 53 bits, the product
\* rounded to 53 bits, then the integer nearest to it, halves going up.
RoundedPercent(c, t) ==
  IF c = 0 THEN 0 ELSE
  LET s        == Normalise(c, t)
      n0       == c * (2 ^ s)
      \* 1 + 53 quotient bits + remainder flag, scaled by 2^-(54 + s)
      exact    == Reverse(<<1>> \o DivBits(n0 - t, t, 53))
      quotient == RoundOff(exact, 2)                      \* scale 2^-(52 + s)
      product  == Trim(AddBits(AddBits(ShiftLeft(quotient, 6), ShiftLeft(quotient, 5), 0),
                               ShiftLeft(quotient, 2), 0))
      d        == Len(product) - 53
      rounded  == RoundOff(product, d)                    \* scale 2^(d - 52 - s)
      f        == 52 + s - d                              \* fraction bits
  IN  ToNat(SubSeq(rounded, f + 1, Len(rounded))) + rounded[f]

\* lines 354-356: total > 0 ? Math.round((completed / total) * 100) : 0
CompletionRate(c, t) == IF t > 0 THEN RoundedPercent(c, t) ELSE 0

\* -------------------------------------------------------------- getStats
\* the aliases as the select list writes them, lines 333-342
Aliases == {"total", "completed", "inProgress", "pending", "highPriority",
            "mediumPriority", "lowPriority", "overdue"}

\* The aliases are not quoted in the statement, and the store folds an
\* unquoted identifier to lower case: that is the name of the column in
\* the row getRawOne returns.
ColumnName(a) ==
  CASE a = "inProgress"     -> "inprogress"
    [] a = "highPriority"   -> "highpriority"
    [] a = "mediumPriority" -> "mediumpriority"
    [] a = "lowPriority"    -> "lowpriority"
    [] OTHER                -> a

\* the raw row for the counts of the aggregate, one column per alias
RawRow(counts) ==
  [k \in { ColumnName(a) : a \in Aliases } |->
     counts[CHOOSE a \in Aliases : ColumnName(a) = k]]

Count(rows, field, value) ==
  Cardinality({ i \in DOMAIN rows : rows[i] # NoRow /\ rows[i][field] = value })

\* COUNT(*) and the COUNT(CASE WHEN ...) columns, lines 333-342 (no row of
\* the model has a due date, so none is overdue)
Aggregate(rows) ==
  [total          |-> Cardinality({ i \in DOMAIN rows : rows[i] # NoRow }),
   completed      |-> Count(rows, "status", "completed"),
   inProgress     |-> Count(rows, "status", "in_progress"),
   pending        |-> Count(rows, "status", "pending"),
   highPriority   |-> Count(rows, "priority", "high"),
   mediumPriority |-> Count(rows, "priority", "medium"),
   lowPriority    |-> Count(rows, "priority", "low"),
   overdue        |-> 0]

\* Number(stats.x) || 0: a property the raw row does not have is undefined,
\* Number(undefined) is NaN, and NaN || 0 is 0
NumberOr0(raw, x) == IF x \in DOMAIN raw THEN raw[x] ELSE 0

\* the TaskStatsDto built from the raw row, lines 354-368
StatsValue(raw) ==
  [kind |-> "ok", name |-> None, row |-> NoRow, affected |-> 0, detail |-> None,
   total          |-> NumberOr0(raw, "total"),
   completed      |-> NumberOr0(raw, "completed"),
   inProgress     |-> NumberOr0(raw, "inProgress"),
   pending        |-> NumberOr0(raw, "pending"),
   highPriority   |-> NumberOr0(raw, "highPriority"),
   mediumPriority |-> NumberOr0(raw, "mediumPriority"),
   lowPriority    |-> NumberOr0(raw, "lowPriority"),
   overdue        |-> NumberOr0(raw, "overdue"),
   completionRate |-> CompletionRate(NumberOr0(raw, "completed"), NumberOr0(raw, "total"))]

CallGetStats(p) == EnterRead(p, "getStats", NoArg, "getRawOne")

\* await ...createQueryBuilder('task').select([...]).getRawOne(), lines 331-352
GetStatsQuery(p) ==
  /\ pc[p] = "getRawOne"
  /\ \/ /\ stats' = [stats EXCEPT ![p] = RawRow(Aggregate(store))]
        /\ pc' = [pc EXCEPT ![p] = "convert"]
        /\ UNCHANGED result
     \/ /\ QueryFails(p)
        /\ UNCHANGED stats
  /\ UNCHANGED <<store, nextId, taskQueue, calls, op, arg, runner, txState, locks,
                 writes, task, taskId, originalStatus, err, attempts, qres,
                 total, clock, txStart, stamps>>

\* lines 354-368: the numbers are taken from the raw row and returned
GetStatsResult(p) ==
  /\ pc[p] = "convert"
  /\ result' = [result EXCEPT ![p] = StatsValue(stats[p])]
  /\ pc' = [pc EXCEPT ![p] = "return"]
  /\ UNCHANGED <<store, nextId, taskQueue, calls, op, arg, runner, txState, locks,
                 writes, task, taskId, originalStatus, err, attempts, qres,
                 total, stats, clock, txStart, stamps>>

\* ---------------------------------------------------------- the system
Next ==
  \E p \in Procs :
    \/ CallCreate(p)
    \/ CallUpdate(p)
    \/ CallRemove(p)
    \/ CallUpdateStatus(p)
    \/ CallBatchProcess(p)
    \/ CreateSave(p)
    \/ LockRead(p)
    \/ UpdateSave(p)
    \/ RemoveDelete(p)
    \/ BatchDispatch(p)
    \/ QueueAnswer(p)
    \/ Commit(p)
    \/ Rollback(p)
    \/ Release(p)
    \/ FindOne(p)
    \/ SaveStatus(p)
    \/ Return(p)

Spec == Init /\ [][Next]_vars

\* The store answers every request; the event queue and the callers promise
\* nothing.
StoreStep(p) ==
  \/ CreateSave(p) \/ LockRead(p) \/ UpdateSave(p) \/ RemoveDelete(p)
  \/ BatchDispatch(p) \/ Commit(p) \/ Rollback(p) \/ Release(p)
  \/ FindOne(p) \/ SaveStatus(p) \/ Return(p)

LiveSpec == Init /\ [][Next]_vars /\ \A p \in Procs : WF_vars(StoreStep(p))

\* ------------------------------------------------- the system in time
\* time passes on the store's clock
Tick ==
  /\ clock < MaxClock
  /\ clock' = clock + 1
  /\ UNCHANGED <<store, nextId, taskQueue, calls, pc, op, arg, runner, txState,
                 locks, writes, task, taskId, originalStatus, err, attempts,
                 qres, result, total, stats, txStart, stamps>>

\* creates and updates running while the clock advances, without a queue
TimeInit == Init /\ ~taskQueue

TimeNext ==
  \/ Tick
  \/ \E p \in Procs :
       \/ CallCreate(p)
       \/ CallUpdate(p)
       \/ CreateSave(p)
       \/ LockRead(p)
       \/ UpdateSave(p)
       \/ Commit(p)
       \/ Rollback(p)
       \/ Release(p)

TimeSpec == TimeInit /\ [][TimeNext]_vars

\* ------------------------------------------------------ the read methods
\* rows left in the table by earlier requests
QueryRows == CreateInputs \cup {[status |-> "completed", priority |-> "low"]}

\* findAll and getStats on a table that no request is writing
QueryInit ==
  /\ store \in [Ids -> QueryRows \cup {NoRow}]
  /\ nextId = MaxId + 1
  /\ taskQueue = FALSE
  /\ NoRequest

QueryNext ==
  \E p \in Procs :
    \/ CallFindAll(p)
    \/ FindAllCount(p)
    \/ FindAllPage(p)
    \/ CallGetStats(p)
    \/ GetStatsQuery(p)
    \/ GetStatsResult(p)
    \/ Return(p)

QuerySpec == QueryInit /\ [][QueryNext]_vars

\* getStats after its query has answered for a table of t tasks, c of them
\* completed and the others pending, all of medium priority; the table is
\* represented by that answer alone
RateInit ==
  /\ store = [i \in Ids |-> NoRow]
  /\ nextId = 1
  /\ taskQueue = FALSE
  /\ calls = 1
  /\ pc = [p \in Procs |-> IF p = 1 THEN "convert" ELSE "idle"]
  /\ op = [p \in Procs |-> IF p = 1 THEN "getStats" ELSE None]
  /\ \E t \in 0..MaxTotal : \E c \in 0..t :
       stats = [p \in Procs |->
                  IF p = 1
                    THEN RawRow([total |-> t, completed |-> c, inProgress |-> 0,
                                 pending |-> t - c, highPriority |-> 0,
                                 mediumPriority |-> t, lowPriority |-> 0,
                                 overdue |-> 0])
                    ELSE <<>>]
  /\ NoLocals

RateNext == \E p \in Procs : GetStatsResult(p) \/ Return(p)

RateSpec == RateInit /\ [][RateNext]_vars

\* findAll next to the requests that add and remove rows, without a queue
ReadInit == Init /\ ~taskQueue

ReadNext ==
  \E p \in Procs :
    \/ CallFindAll(p)
    \/ FindAllCount(p)
    \/ FindAllPage(p)
    \/ Return(p)
    \/ CallCreate(p)
    \/ CallRemove(p)
    \/ CallBatchProcess(p)
    \/ CreateSave(p)
    \/ LockRead(p)
    \/ RemoveDelete(p)
    \/ BatchDispatch(p)
    \/ Commit(p)
    \/ Rollback(p)
    \/ Release(p)

ReadSpec == ReadInit /\ [][ReadNext]_vars

\* ================================================================ claims
TxOps == {"create", "update", "remove", "batchProcess"}

\* C1: no lost update between concurrent update calls.  The row an update
\* commits is its patch applied to the row that is committed at that moment,
\* so the committed updates of a task compose in commit order and none of
\* them writes over a field with a value read before an earlier commit.
C1_NoLostUpdate ==
  [][\A p \in Procs :
       (op[p] = "update" /\ pc[p] = "commit" /\ txState'[p] = "committed")
         => /\ store[arg[p].id] # NoRow
            /\ store'[arg[p].id] = ApplyPatch(store[arg[p].id], arg[p].patch)]_vars

\* one update of a task has committed and a second one, called with another
\* patch before the first returned, is about to commit
C1_Witness ==
  \E p, q \in Procs :
    /\ p # q
    /\ op[p] = "update" /\ op[q] = "update"
    /\ arg[p].id = arg[q].id /\ arg[p].patch # arg[q].patch
    /\ txState[p] = "committed"
    /\ pc[q] = "commit"
    /\ task[q] = ApplyPatch(store[arg[q].id], arg[q].patch)
    /\ task[q] # store[arg[q].id]

\* an update or remove that has read its row under lock and whose
\* transaction has not ended
InLockedSection(p) ==
  /\ op[p] \in {"update", "remove"}
  /\ txState[p] = "active"
  /\ \/ pc[p] \in {"save", "delete", "enqueue", "commit"}
     \/ pc[p] = "rollback" /\ err[p] # "NotFound"

\* C2: mutual exclusion of the row lock.  No two transactions hold the lock
\* of the same task, and an update or remove holds the lock of its task from
\* its locked read until its commit or rollback.
C2_MutualExclusion ==
  /\ \A p, q \in Procs : p # q => locks[p] \cap locks[q] = {}
  /\ \A p \in Procs : InLockedSection(p) => arg[p].id \in locks[p]

\* an update holds the lock of a task while a remove of the same task waits
\* at its locked read
C2_Witness ==
  \E p, q \in Procs :
    /\ p # q
    /\ op[p] = "update" /\ InLockedSection(p)
    /\ op[q] = "remove" /\ pc[q] = "lockRead"
    /\ arg[q].id = arg[p].id

\* C3: rollback on failure.  A create, update, remove or batchProcess that
\* ends with an error has not committed, its writes are discarded, and the
\* rollback itself leaves every committed row as it was.
C3_RollbackOnFailure ==
  /\ [](\A p \in Procs :
          (op[p] \in TxOps /\ result[p].kind = "error")
            => txState[p] # "committed" /\ writes[p] = NoWrites)
  /\ [][\A p \in Procs : (pc[p] = "rollback" /\ pc'[p] # "rollback") => store' = store]_vars

\* an update whose save succeeded and whose commit failed has been rolled
\* back: the committed row is not the row it saved
C3_Witness ==
  \E p \in Procs :
    /\ op[p] = "update" /\ pc[p] = "release"
    /\ txState[p] = "rolledback"
    /\ result[p] = Failure("BadRequest")
    /\ task[p] # NoRow
    /\ store[arg[p].id] # task[p]

\* C4: no leaked transaction handle.  A request that is not inside a method
\* has no unreleased query runner.
C4_NoLeakedRunner ==
  \A p \in Procs : pc[p] \in {"idle", "return"} => runner[p] # "open"

\* every request has returned from a transactional method and none is in
\* flight
C4_Witness ==
  /\ calls = MaxCalls
  /\ \A p \in Procs : pc[p] = "idle" /\ runner[p] = "released"

\* C5: enqueue only after commit.  A request has handed an event to the
\* queue only if its transaction has committed; in particular no request
\* whose transaction ended rolled back has handed one over.
C5_EnqueueOnlyAfterCommit ==
  \A p \in Procs : attempts[p] # <<>> => txState[p] = "committed"

\* C6: a queue failure is not fatal.  After taskQueue.add has failed, the
\* queue's error is never the error the method handles or throws; the
\* method goes on to commit, and unless the store then fails it ends
\* committed, returning the task it saved.
C6_QueueFailureNonFatal ==
  \A p \in Procs :
    qres[p] = "failed" =>
      /\ err[p] \in {None, "StoreError"}
      /\ err[p] = None => pc[p] \in {"commit", "release"}
      /\ err[p] = "StoreError" => pc[p] \in {"rollback", "release"}
      /\ (pc[p] = "release" /\ err[p] = None)
           => /\ txState[p] = "committed"
              /\ result[p] = OkRow(task[p])

\* an update whose enqueue failed has committed and returns its task
C6_Witness ==
  \E p \in Procs :
    /\ op[p] = "update" /\ qres[p] = "failed"
    /\ pc[p] = "release" /\ txState[p] = "committed"
    /\ result[p] = OkRow(task[p])
    /\ store[arg[p].id] = task[p]

\* C7: event delivery never blocks the primary mutation.  With a store that
\* answers every request, a create or update that has called the queue
\* ends its transaction and holds no row lock, whether or not the queue
\* ever answers.
C7_EnqueueNeverBlocks ==
  \A p \in Procs :
    (pc[p] = "enqueue") ~> (txState[p] # "active" /\ locks[p] = {})

\* C8: status-change event on update.  With the queue present, a committed
\* update has made exactly one enqueue attempt, carrying its identifier and
\* the post-patch status, when that status differs from the one read under
\* lock, and none when it does not.
C8_UpdateEvent ==
  \A p \in Procs :
    (taskQueue /\ op[p] = "update" /\ txState[p] = "committed")
      => attempts[p] =
           IF task[p].status # originalStatus[p]
             THEN << [taskId |-> arg[p].id, status |-> task[p].status] >>
             ELSE << >>

\* an update that changed the status has committed after one attempt
C8_Witness ==
  \E p \in Procs :
    /\ taskQueue /\ op[p] = "update" /\ txState[p] = "committed"
    /\ task[p].status # originalStatus[p]
    /\ Len(attempts[p]) = 1

\* C9: every committed status transition is notified.  With the queue
\* present, the step that commits a change of a task's status is taken by a
\* request that has made an enqueue attempt for that task with the new
\* status.
C9_EveryTransitionNotified ==
  [][\A i \in Ids :
       (taskQueue /\ store[i] # NoRow /\ store'[i] # NoRow
          /\ store'[i].status # store[i].status)
         => \E p \in Procs :
              /\ pc[p] \in {"commit", "saveStatus"}
              /\ pc'[p] # pc[p]
              /\ [taskId |-> i, status |-> store'[i].status] \in Range(attempts[p])]_vars

\* the value each method returns when no statement failed
Expected(p) ==
  CASE op[p] \in {"create", "update", "updateStatus"} -> OkRow(task[p])
    [] op[p] = "remove"       -> OkVoid
    [] op[p] = "batchProcess" -> OkBatch(arg[p].action, Len(arg[p].ids))
    [] OTHER                  -> NoResult

\* C10: queue absent.  Without a queue no enqueue attempt is ever made, and
\* a method in which no statement failed ends as it does with a queue:
\* committed, returning its task (create, update, updateStatus), nothing
\* (remove) or the batch result.
C10_QueueAbsent ==
  ~taskQueue =>
    \A p \in Procs :
      /\ attempts[p] = <<>> /\ qres[p] = None /\ pc[p] # "enqueue"
      /\ (pc[p] = "release" /\ err[p] = None)
           => txState[p] = "committed" /\ result[p] = Expected(p)
      /\ (pc[p] = "return" /\ result[p].kind = "ok") => result[p] = Expected(p)

\* without a queue, an update that changed the status has committed and
\* returns its task
C10_Witness ==
  \E p \in Procs :
    /\ ~taskQueue
    /\ op[p] = "update" /\ pc[p] = "release" /\ txState[p] = "committed"
    /\ task[p].status # originalStatus[p]
    /\ result[p] = OkRow(task[p])

\* C11: creation event.  With the queue present, a committed create has made
\* exactly one enqueue attempt, whose payload is the identifier and the
\* status of the row it returns, and that row is the one its commit
\* persisted under that identifier.
C11_CreateEvent ==
  /\ [](\A p \in Procs :
          (taskQueue /\ op[p] = "create" /\ txState[p] = "committed")
            => /\ attempts[p] = << [taskId |-> taskId[p], status |-> result[p].row.status] >>
               /\ result[p] = OkRow(task[p]))
  /\ [][\A p \in Procs :
         (op[p] = "create" /\ pc[p] = "commit" /\ txState'[p] = "committed")
           => /\ store[taskId[p]] = NoRow
              /\ store'[taskId[p]] = task[p]]_vars

\* with the queue present a create has committed its row
C11_Witness ==
  \E p \in Procs :
    /\ taskQueue /\ op[p] = "create" /\ txState[p] = "committed"
    /\ store[taskId[p]] = task[p]
    /\ Len(attempts[p]) = 1

\* identifier i shows the effect of batch request a in table t
AffectedIn(t, i, a) ==
  CASE a.action = "delete"          -> t[i] = NoRow
    [] a.action = "complete"        -> t[i] # NoRow /\ t[i].status = COMPLETED
    [] a.action = "update_status"   -> t[i] # NoRow /\ t[i].status = a.newStatus
    [] a.action = "update_priority" -> t[i] # NoRow /\ t[i].priority = a.newPriority
    [] OTHER                        -> FALSE

\* C12: batch all-or-nothing.  When a batchProcess ends its transaction, by
\* commit or by rollback, either every identifier of its list shows the
\* action's effect or none of the listed identifiers has changed.
C12_BatchAllOrNothing ==
  [][\A p \in Procs :
       (op[p] = "batchProcess" /\ pc[p] \in {"commit", "rollback"} /\ pc'[p] = "release")
         => \/ \A i \in Range(arg[p].ids) : AffectedIn(store', i, arg[p])
            \/ \A i \in Range(arg[p].ids) : store'[i] = store[i]]_vars

\* a batch request without the parameter its action needs, or with an
\* action that is not one of the four
InvalidRequest(p) ==
  /\ op[p] = "batchProcess"
  /\ \/ arg[p].action = "update_status" /\ arg[p].newStatus = None
     \/ arg[p].action = "update_priority" /\ arg[p].newPriority = None
     \/ arg[p].action \notin {"complete", "delete", "update_status", "update_priority"}

C14_AffectedCount ==
  [][\A p \in Procs :
       (op[p] = "batchProcess" /\ pc[p] = "commit" /\ txState'[p] = "committed")
         => /\ result'[p].kind = "ok" /\ result'[p].name = arg[p].action
            /\ result'[p].affected = Cardinality({ i \in Ids : writes[p][i] # Keep })]_vars

C16_ErrorKinds ==
  \A p \in Procs :
    (op[p] \in TxOps /\ txState[p] = "rolledback" /\ pc[p] = "release") =>
      /\ err[p] \in {"BadRequest", "NotFound"} => result[p].name = err[p]
      /\ err[p] = "StoreError" => result[p].name \notin {"BadRequest", "NotFound"}

\* C17: no internal detail in production.  With NODE_ENV other than
\* development, the error a caller receives never carries the message of
\* the store error that caused it, so it is the same whatever that
\* message was.
C17_NoInternalDetail ==
  \A p \in Procs :
    (pc[p] \in {"release", "return"} /\ result[p].kind = "error")
      => Intercept(result[p], "production").detail \notin StoreMessages

\* C18 as stated: updateStatus never waits for a row lock held by update or
\* remove, so its save of an accepted status can always go ahead.
C18_NeverWaits ==
  \A p \in Procs :
    (pc[p] = "saveStatus" /\ arg[p].status \in Status) => ENABLED SaveStatusOk(p)

\* C18 amended: updateStatus is an unlocked read-modify-write.  It holds no
\* row lock, its read never waits, its write waits exactly while another
\* transaction holds the row's lock, and what it writes is the copy it read
\* with the new status, whatever was committed in between.
C18_UnlockedReadModifyWrite ==
  /\ [](\A p \in Procs :
          op[p] = "updateStatus" =>
            /\ locks[p] = {} /\ txState[p] = "none"
            /\ pc[p] = "findOne" => ENABLED FindOne(p)
            /\ (pc[p] = "saveStatus" /\ arg[p].status \in Status)
                 => (ENABLED SaveStatusOk(p) <=> ~LockedByOther(p, arg[p].id)))
  /\ [][\A p \in Procs :
         (pc[p] = "saveStatus" /\ pc'[p] = "return" /\ result'[p].kind = "ok")
           => store'[arg[p].id] = [task[p] EXCEPT !.status = arg[p].status]]_vars

\* updateStatus read the row, an update of the same task committed a new
\* priority, and updateStatus then saved its copy: the committed priority
\* is gone from the store
C18_Witness ==
  \E p, q \in Procs :
    /\ op[p] = "updateStatus" /\ pc[p] = "return" /\ result[p].kind = "ok"
    /\ op[q] = "update" /\ arg[q].id = arg[p].id /\ txState[q] = "committed"
    /\ "priority" \in DOMAIN arg[q].patch
    /\ store[arg[p].id] = result[p].row
    /\ store[arg[p].id].priority # task[q].priority

\* C19: hard delete is permanent.  A row that is absent from the store
\* appears only by the commit of the create that was assigned its
\* identifier; identifiers are never reused, so a deleted row never comes
\* back.
C19_DeletePermanent ==
  [][\A i \in Ids :
       (store[i] = NoRow /\ store'[i] # NoRow)
         => \E p \in Procs : op[p] = "create" /\ pc[p] = "commit" /\ taskId[p] = i]_vars

\* C20: enumerated values only.  Every row of the store has a status among
\* pending, in_progress, completed and a priority among low, medium, high,
\* whatever updateStatus and the batch's update_priority were given.
C20_EnumeratedValues ==
  \A i \in Ids :
    store[i] # NoRow => store[i].status \in Status /\ store[i].priority \in Priority

\* a batch update_priority with a string that is no priority and an
\* updateStatus with a string that is no status were both sent against an
\* existing task and both ended in an error
C20_Witness ==
  \E p, q \in Procs :
    /\ op[p] = "batchProcess" /\ arg[p].action = "update_priority"
    /\ arg[p].newPriority \notin Priority \cup {None}
    /\ txState[p] = "rolledback" /\ result[p].kind = "error"
    /\ op[q] = "updateStatus" /\ arg[q].status \notin Status
    /\ pc[q] = "return" /\ result[q].name = "StoreError"
    /\ store[arg[q].id] \in Rows /\ arg[q].id \in Range(arg[p].ids)

C28_RollbackOnlyWhenActive ==
  \A p \in Procs :
    /\ pc[p] = "rollback" => txState[p] = "active"
    /\ result[p].name # "TransactionNotStarted"

\* an update whose event has been handed to the queue and whose
\* transaction has not ended yet
EventPending(p) ==
  op[p] = "update" /\ attempts[p] # <<>> /\ txState[p] = "active"

\* C29: event order follows commit order per task.  An update enqueues
\* while it holds the task's row lock and before it commits, so between
\* the enqueue attempt of one update and its commit no other update of the
\* same task enqueues or commits; the event of a committing update carries
\* the status that commit writes.
C29_EventOrder ==
  /\ [](\A p \in Procs :
          EventPending(p) =>
            /\ arg[p].id \in locks[p]
            /\ \A q \in Procs \ {p} :
                 (op[q] = "update" /\ arg[q].id = arg[p].id)
                   => ~EventPending(q) /\ pc[q] # "commit")
  /\ [][\A p \in Procs :
         (EventPending(p) /\ pc[p] = "commit" /\ txState'[p] = "committed")
           => /\ Len(attempts[p]) = 1
              /\ attempts[p][1].taskId = arg[p].id
              /\ attempts[p][1].status = store'[arg[p].id].status]_vars

\* two updates of the same task have both changed its status, enqueued and
\* committed; the store holds the status of the one that committed last
C29_Witness ==
  \E p, q \in Procs :
    /\ p # q /\ op[p] = "update" /\ op[q] = "update" /\ arg[p].id = arg[q].id
    /\ txState[p] = "committed" /\ txState[q] = "committed"
    /\ Len(attempts[p]) = 1 /\ Len(attempts[q]) = 1
    /\ attempts[p][1].status # attempts[q][1].status
    /\ store[arg[q].id].status = attempts[q][1].status

\* C26: every transaction terminates.  With a store that answers every
\* request, each create, update, remove and batchProcess invocation
\* eventually returns with its query runner released.
C26_Terminates ==
  \A p \in Procs :
    (op[p] \in TxOps) ~> (pc[p] = "idle" /\ runner[p] = "released")

Answered(p, o) == op[p] = o /\ pc[p] = "return" /\ result[p].kind = "ok"

\* the rows of the table that pass the filters of q
Filtered(q) ==
  { i \in Ids : /\ store[i] # NoRow
                /\ q.status = None \/ store[i].status = q.status
                /\ q.priority = None \/ store[i].priority = q.priority }

\* C22: pagination envelope.  With no writer, findAll returns the number T
\* of matching rows as total, the least number of pages of `limit` rows
\* that hold T rows as totalPages, hasNext = (page < totalPages), hasPrev =
\* (page > 1), the page and limit it was given, and exactly
\* min(limit, max(0, T - (page - 1) * limit)) items.
C22_Envelope ==
  \A p \in Procs :
    Answered(p, "findAll") =>
      LET q    == arg[p].query
          e    == result[p]
          T    == Cardinality(Filtered(q))
          rest == IF T > (q.page - 1) * q.limit THEN T - (q.page - 1) * q.limit ELSE 0
      IN  /\ e.total = T /\ e.page = q.page /\ e.limit = q.limit
          /\ e.totalPages * q.limit >= T /\ (e.totalPages - 1) * q.limit < T
          /\ e.hasNext = (q.page < e.totalPages)
          /\ e.hasPrev = (q.page > 1)
          /\ Len(e.data) = IF q.limit < rest THEN q.limit ELSE rest

\* the second and last page of two matching rows, one row to the page
C22_Witness ==
  \E p \in Procs :
    /\ Answered(p, "findAll")
    /\ arg[p].query.page = 2 /\ arg[p].query.limit = 1
    /\ result[p].total = 2 /\ result[p].totalPages = 2
    /\ Len(result[p].data) = 1 /\ result[p].hasPrev /\ ~result[p].hasNext

\* C23: statistics consistency.  getStats returns the number of rows as
\* total, the number of rows of each status and of each priority in the
\* field of that category, so that the three status counts and the three
\* priority counts each add up to total.
C23_StatsConsistent ==
  \A p \in Procs :
    Answered(p, "getStats") =>
      LET r == result[p]
          N(field, value) ==
            Cardinality({ i \in Ids : store[i] # NoRow /\ store[i][field] = value })
      IN  /\ r.total = Cardinality({ i \in Ids : store[i] # NoRow })
          /\ r.completed = N("status", "completed")
          /\ r.inProgress = N("status", "in_progress")
          /\ r.pending = N("status", "pending")
          /\ r.highPriority = N("priority", "high")
          /\ r.mediumPriority = N("priority", "medium")
          /\ r.lowPriority = N("priority", "low")
          /\ r.completed + r.inProgress + r.pending = r.total
          /\ r.highPriority + r.mediumPriority + r.lowPriority = r.total

\* C24: completion rate.  getStats returns the integer nearest to
\* 100 * completed / total, halves going up, when total > 0, and 0 when
\* total = 0; the rate lies in 0..100.
C24_CompletionRate ==
  \A p \in Procs :
    Answered(p, "getStats") =>
      LET r == result[p] IN
      /\ r.completionRate \in 0..100
      /\ r.completionRate = IF r.total > 0
                              THEN (200 * r.completed + r.total) \div (2 * r.total)
                              ELSE 0

\* C30: snapshot-consistent envelope.  Whatever is committed while findAll
\* runs, the page holds at most max(0, total - (page - 1) * limit) items,
\* each of which passes the filters.
C30_SnapshotEnvelope ==
  \A p \in Procs :
    Answered(p, "findAll") =>
      LET q    == arg[p].query
          e    == result[p]
          rest == IF e.total > (q.page - 1) * q.limit
                    THEN e.total - (q.page - 1) * q.limit ELSE 0
      IN  /\ Len(e.data) <= rest
          /\ \A k \in 1..Len(e.data) :
               /\ q.status = None \/ e.data[k].status = q.status
               /\ q.priority = None \/ e.data[k].priority = q.priority

====
